---- MODULE Spec2Model ----
(***************************************************************************)
(* A model of kernel.py of android-action-kernel: the action catalog, the  *)
(* tool registry (FUNCTIONS / FUNCTION_MAP), the dispatcher inside the     *)
(* tool-call loop of run_agent, the perception step get_screen_state and   *)
(* the perceive -> reason -> act loop of run_agent.                        *)
(*                                                                         *)
(* External collaborators (adb, the file system, the reasoning service,    *)
(* the host shell) are nondeterministic: every action draws their outcome  *)
(* from a small set.                                                       *)
(*                                                                         *)
(* A Python call either returns a value or raises: an outcome is a record  *)
(* [raised |-> BOOLEAN, value |-> STRING] whose value is the returned      *)
(* string, or str(e) of the exception raised.                              *)
(***************************************************************************)
EXTENDS Integers, Sequences, FiniteSets, TLC

\* ------------------------------------------------------------------ bounds
\* largest iteration budget (max_iterations) a run is started with
MaxIterations == 2

\* most tool invocation requests the reasoning collaborator emits in one run
MaxRequests == 3

\* longest text, in characters, given to escape_text_for_adb (the example
\* text of the specification is given as well)
MaxTextLen == 2

\* ----------------------------------------------------------------- helpers
Returns(s) == [raised |-> FALSE, value |-> s]
Raises(s) == [raised |-> TRUE, value |-> s]

Digit(d) == CASE d = 0 -> "0" [] d = 1 -> "1" [] d = 2 -> "2" [] d = 3 -> "3"
              [] d = 4 -> "4" [] d = 5 -> "5" [] d = 6 -> "6" [] d = 7 -> "7"
              [] d = 8 -> "8" [] OTHER -> "9"

RECURSIVE NatStr(_)
NatStr(n) == IF n < 10 THEN Digit(n) ELSE NatStr(n \div 10) \o Digit(n % 10)

\* Python's str() of an int
Str(n) == IF n < 0 THEN "-" \o NatStr(0 - n) ELSE NatStr(n)

\* A parsed arguments object (a Python dict) is a set of <<key, value>> pairs.
Keys(d) == {p[1] : p \in d}
Get(d, k) == (CHOOSE p \in d : p[1] = k)[2]

\* ------------------------------------------------------------ text escaping
\* A Python str is a sequence of one-character strings.
BACKSLASH == "\\"

\* the backquote character, which cannot be written inside a string here
BACKTICK == "backquote"

\* text.replace(ch, repl) for a one-character ch
RECURSIVE Replace(_, _, _)
Replace(t, ch, repl) ==
    IF t = << >> THEN << >>
    ELSE (IF Head(t) = ch THEN repl ELSE << Head(t) >>) \o Replace(Tail(t), ch, repl)

\* the escaping with the replacement of "<" copied from that of ">"
escape_text_for_adb_CopiedLine(t) ==
    LET t1 == Replace(t, " ", << "%", "s" >>)
        t2 == Replace(t1, "&", << BACKSLASH, "&" >>)
        t3 == Replace(t2, "<", << BACKSLASH, ">" >>)
        t4 == Replace(t3, ">", << BACKSLASH, ">" >>)
        t5 == Replace(t4, "|", << BACKSLASH, "|" >>)
        t6 == Replace(t5, ";", << BACKSLASH, ";" >>)
        t7 == Replace(t6, "$", << BACKSLASH, "$" >>)
        t8 == Replace(t7, BACKTICK, << BACKSLASH, BACKTICK >>)
        t9 == Replace(t8, "(", << BACKSLASH, "(" >>)
        t10 == Replace(t9, ")", << BACKSLASH, ")" >>)
        t11 == Replace(t10, "'", << BACKSLASH, "'" >>)
    IN  Replace(t11, "\"", << BACKSLASH, "\"" >>)

\* escape_text_for_adb(text): the twelve replacements, in the order of the code
escape_text_for_adb(t) ==
    LET t1 == Replace(t, " ", << "%", "s" >>)
        t2 == Replace(t1, "&", << BACKSLASH, "&" >>)
        t3 == Replace(t2, "<", << BACKSLASH, "<" >>)
        t4 == Replace(t3, ">", << BACKSLASH, ">" >>)
        t5 == Replace(t4, "|", << BACKSLASH, "|" >>)
        t6 == Replace(t5, ";", << BACKSLASH, ";" >>)
        t7 == Replace(t6, "$", << BACKSLASH, "$" >>)
        t8 == Replace(t7, BACKTICK, << BACKSLASH, BACKTICK >>)
        t9 == Replace(t8, "(", << BACKSLASH, "(" >>)
        t10 == Replace(t9, ")", << BACKSLASH, ")" >>)
        t11 == Replace(t10, "'", << BACKSLASH, "'" >>)
    IN  Replace(t11, "\"", << BACKSLASH, "\"" >>)

\* the characters escape_text_for_adb special-cases
Metacharacters == { "&", "<", ">", "|", ";", "$", BACKTICK, "(", ")", "'", "\"" }

\* the characters of the texts given to escape_text_for_adb: the space, the
\* metacharacters, and the ordinary characters backslash, "%" and "s"
TextAlphabet == {" "} \cup Metacharacters \cup {BACKSLASH, "%", "s"}

\* "it's & <tag>"
ExampleText == << "i", "t", "'", "s", " ", "&", " ", "<", "t", "a", "g", ">" >>

Texts == UNION { [1..n -> TextAlphabet] : n \in 0..MaxTextLen } \cup {ExampleText}

\* ------------------------------------------------------- the action catalog
COMPLETION_MARKER == "TASK_COMPLETE"

\* subprocess.run([ADB_PATH] + command): adb is "ok" (command ran), "error"
\* (adb ran and failed, e.g. no device: stderr text, no exception) or
\* "missing" (the adb executable cannot be started: FileNotFoundError).
AdbOutcomes == {"ok", "error", "missing"}

run_adb_command(adb) ==
    IF adb = "missing"
    THEN Raises("[Errno 2] No such file or directory: 'adb'")
    ELSE Returns("")

android_tap(args, adb) ==
    IF run_adb_command(adb).raised THEN run_adb_command(adb)
    ELSE Returns("Tapped at (" \o Str(Get(args, "x")) \o ", "
                     \o Str(Get(args, "y")) \o ")")

android_type(args, adb) ==
    IF run_adb_command(adb).raised THEN run_adb_command(adb)
    ELSE Returns("Typed: " \o Get(args, "text"))

android_home(adb) ==
    IF run_adb_command(adb).raised THEN run_adb_command(adb)
    ELSE Returns("Navigated to home screen")

android_back(adb) ==
    IF run_adb_command(adb).raised THEN run_adb_command(adb)
    ELSE Returns("Went back")

\* time.sleep(seconds) raises ValueError for a negative duration
android_wait(args) ==
    LET seconds == IF "seconds" \in Keys(args) THEN Get(args, "seconds") ELSE 2
    IN  IF seconds < 0
        THEN Raises("sleep length must be non-negative")
        ELSE Returns("Waited " \o Str(seconds) \o " seconds")

\* The host file actions wrap their whole body in try/except Exception.
FileOutcomes == {"ok", "oserror"}

host_read_file(args, io) ==
    IF io = "oserror"
    THEN Returns("Error reading file: [Errno 2] No such file or directory")
    ELSE Returns("File content:\ndata")

host_write_file(args, io) ==
    IF io = "oserror"
    THEN Returns("Error writing file: [Errno 13] Permission denied")
    ELSE Returns("Wrote 4 characters to " \o Get(args, "filepath"))

host_list_directory(args, io) ==
    IF io = "oserror"
    THEN Returns("Error listing directory: [Errno 2] No such file or directory")
    ELSE Returns("Directory contents:\nwindow_dump.xml")

\* subprocess.run(command, shell=True, capture_output=True, text=True,
\* timeout=30): the command prints sh (its stdout, stripped), or runs past the
\* timeout, or the shell cannot be started. At the timeout the shell itself
\* runs the command ("timeout": `sh -c` exec'ed it, or a builtin) or waits
\* for a process it started ("timeout_child": `sleep 60; echo done`).
ShellOutcomes == {"", "ok", "TASK_COMPLETE", "timeout", "timeout_child", "oserror"}

TimedOut(sh) == sh \in {"timeout", "timeout_child"}

\* the processes of the command that exist when the timeout expires
ProcessesAtTimeout(sh) ==
    IF sh = "timeout_child" THEN {"shell", "child"} ELSE {"shell"}

\* subprocess.run on TimeoutExpired: process.kill() and process.wait() on the
\* Popen object, which is the shell; nothing signals the shell's children
KilledAtTimeout == {"shell"}

\* what host_run_command leaves running when it returns
LeftRunning(name, sh) ==
    IF name = "host_run_command" /\ TimedOut(sh)
    THEN ProcessesAtTimeout(sh) \ KilledAtTimeout
    ELSE {}

host_run_command(args, sh) ==
    CASE TimedOut(sh) -> Returns("Error: Command timed out after 30 seconds")
      [] sh = "oserror" -> Returns("Error running command: [Errno 12] Cannot allocate memory")
      [] sh = "" -> Returns("Command executed (no output)")
      [] OTHER -> Returns(sh)

task_complete(args) == Returns(COMPLETION_MARKER)

\* ------------------------------------------------------------ the registry
\* the names of the schemas of FUNCTIONS, in order
FUNCTIONS ==
    << "android_tap", "android_type", "android_home", "android_back",
       "android_wait", "host_read_file", "host_write_file",
       "host_run_command", "host_list_directory", "task_complete" >>

\* a registry that lost the entry of android_wait
FUNCTION_MAP_NoWait ==
    { "android_tap", "android_type", "android_home", "android_back",
      "host_read_file", "host_write_file",
      "host_run_command", "host_list_directory", "task_complete" }

\* the keys of FUNCTION_MAP
FUNCTION_MAP ==
    { "android_tap", "android_type", "android_home", "android_back",
      "android_wait", "host_read_file", "host_write_file",
      "host_run_command", "host_list_directory", "task_complete" }

\* the parameters of each callable's signature, and those without a default
Params(name) ==
    CASE name = "android_tap" -> {"x", "y"}
      [] name = "android_type" -> {"text", "x", "y"}
      [] name = "android_wait" -> {"seconds"}
      [] name = "host_read_file" -> {"filepath"}
      [] name = "host_write_file" -> {"filepath", "content"}
      [] name = "host_run_command" -> {"command"}
      [] name = "host_list_directory" -> {"directory"}
      [] name = "task_complete" -> {"summary"}
      [] OTHER -> {}

Required(name) ==
    CASE name = "android_type" -> {"text"}
      [] name = "android_wait" -> {}
      [] name = "host_list_directory" -> {}
      [] OTHER -> Params(name)

\* The outcomes of the collaborator an action talks to.
EnvOutcomes(name) ==
    CASE name \in {"android_tap", "android_type", "android_home", "android_back"}
           -> AdbOutcomes
      [] name \in {"host_read_file", "host_write_file", "host_list_directory"}
           -> FileOutcomes
      [] name = "host_run_command" -> ShellOutcomes
      [] OTHER -> {"none"}

AllOutcomes == AdbOutcomes \cup FileOutcomes \cup ShellOutcomes \cup {"none"}

\* the outcomes drawn in the multi-iteration runs
LoopOutcomes == AllOutcomes \ {"error", "", "oserror", "timeout_child"}

\* the body of the callable FUNCTION_MAP[name], its arguments bound
ActionBody(name, args, env) ==
    CASE name = "android_tap" -> android_tap(args, env)
      [] name = "android_type" -> android_type(args, env)
      [] name = "android_home" -> android_home(env)
      [] name = "android_back" -> android_back(env)
      [] name = "android_wait" -> android_wait(args)
      [] name = "host_read_file" -> host_read_file(args, env)
      [] name = "host_write_file" -> host_write_file(args, env)
      [] name = "host_run_command" -> host_run_command(args, env)
      [] name = "host_list_directory" -> host_list_directory(args, env)
      [] OTHER -> task_complete(args)

\* Python binds **function_args to the signature before the body runs.
Binds(name, args) ==
    /\ Required(name) \subseteq Keys(args)
    /\ Keys(args) \subseteq Params(name)

\* FUNCTION_MAP[function_name](**function_args)
CallAction(name, args, env) ==
    IF Binds(name, args)
    THEN ActionBody(name, args, env)
    ELSE Raises(name \o "() got unexpected or missing arguments")

\* json.loads(tool_call.function.arguments)
json_loads(arguments) ==
    IF arguments.wellformed
    THEN Returns("")
    ELSE Raises("Expecting value: line 1 column 1 (char 0)")


\* ------------------------------------------------------------- perception
\* What one capture attempt does to LOCAL_DUMP_PATH, and whether adb raises:
\*   "ok"          dump and pull succeed, the pulled file is readable
\*   "undecodable" dump and pull succeed, the pulled bytes are not UTF-8
\*   "error"       the device is unreachable or dump/pull fails: adb prints
\*                 an error, run_adb_command returns, the file is not written
\*   "missing"     adb cannot be started: run_adb_command raises
CaptureOutcomes == {"ok", "undecodable", "error", "missing"}

CAPTURE_ERROR == "Error: Could not capture screen."

\* json.dumps(sanitizer.get_interactive_elements(xml_content)) of a readable dump
Elements(dump) == "[elements of " \o dump \o "]"

\* LOCAL_DUMP_PATH after the two adb commands of get_screen_state
PulledFile(cap, file, fresh) ==
    CASE cap = "ok" -> fresh
      [] cap = "undecodable" -> "undecodable"
      [] OTHER -> file

\* get_screen_state(): cap is the capture outcome, file the content of
\* LOCAL_DUMP_PATH before the call, fresh the screen now on the device
get_screen_state(cap, file, fresh) ==
    LET f == PulledFile(cap, file, fresh)
    IN  IF cap = "missing" THEN Raises("[Errno 2] No such file or directory: 'adb'")
        ELSE IF f = "absent" THEN Returns(CAPTURE_ERROR)
        ELSE IF f = "undecodable"
             THEN Raises("'utf-8' codec can't decode byte 0xff in position 0")
        ELSE Returns(Elements(f))

\* --------------------------------------------------- the reasoning replies
NoArgs == {}
MalformedJson == [wellformed |-> FALSE, value |-> NoArgs]
Json(d) == [wellformed |-> TRUE, value |-> d]

\* an arguments object that matches the signature of name
ValidArgs(name) ==
    CASE name = "android_tap" -> {<<"x", 1>>, <<"y", 2>>}
      [] name = "android_type" -> {<<"text", "hi">>}
      [] name = "android_wait" -> {<<"seconds", 1>>}
      [] name = "host_read_file" -> {<<"filepath", "notes.txt">>}
      [] name = "host_write_file" -> {<<"filepath", "notes.txt">>, <<"content", "data">>}
      [] name = "host_run_command" -> {<<"command", "sleep 60; echo done">>}
      [] name = "host_list_directory" -> {<<"directory", ".">>}
      [] name = "task_complete" -> {<<"summary", "done">>}
      [] OTHER -> NoArgs

\* names the reasoning collaborator may ask for that are in no registry
UnknownNames == {"android_swipe", "launch_app"}

\* every payload the model sends for a name: matching, with an argument too
\* many, without arguments, an invalid duration, and text that is not JSON
Payloads(name) ==
    { Json(ValidArgs(name)), Json(ValidArgs(name) \cup {<<"verbose", 1>>}),
      Json(NoArgs), MalformedJson }
    \cup (IF name = "android_wait" THEN {Json({<<"seconds", -1>>})} ELSE {})
    \cup (IF name = "android_type"
          THEN {Json({<<"text", "hi">>, <<"x", 1>>, <<"y", 2>>})} ELSE {})

\* the whole request surface: every name with every payload
CatalogRequests ==
    UNION { { [name |-> n, arguments |-> a] : a \in Payloads(n) }
            : n \in FUNCTION_MAP \cup UnknownNames }

\* the requests of the multi-iteration runs: one of each dispatch behaviour
LoopRequests ==
    { [name |-> "task_complete", arguments |-> Json(ValidArgs("task_complete"))],
      [name |-> "android_tap", arguments |-> Json(ValidArgs("android_tap"))],
      [name |-> "host_run_command", arguments |-> Json(ValidArgs("host_run_command"))],
      [name |-> "android_swipe", arguments |-> Json(NoArgs)],
      [name |-> "android_swipe", arguments |-> MalformedJson] }

\* tool_call.id: unique per request of a run
CallId(it, j) == "call_" \o Str(it) \o "_" \o Str(j)

\* message.tool_calls of a reply asking for the requests rs in iteration it
ToolCalls(rs, it) ==
    [j \in 1..Len(rs) |->
        [id |-> CallId(it, j), name |-> rs[j].name, arguments |-> rs[j].arguments]]

SeqsUpTo(S, n) == UNION { [1..k -> S] : k \in 0..n }

\* ----------------------------------------------------------------- state
VARIABLES
    max_iterations, \* run_agent's iteration budget
    iteration,      \* the loop variable of `for iteration in range(...)`
    pc,             \* where run_agent is: "for", "perceive", "reason", "dispatch", "end"
    state,          \* RUNNING, DONE, EXHAUSTED, or RAISED (an exception left run_agent)
    messages,       \* the transcript
    tool_calls,     \* message.tool_calls of the current reply
    idx,            \* position of the tool-call loop in tool_calls
    localDump,      \* content of LOCAL_DUMP_PATH on the host
    captured,       \* history: the capture outcome of the current iteration
    invoked,        \* history: ids of the requests whose action body ran
    outcomes,       \* history: what each action body that ran did
    nPerceive,      \* history: calls of get_screen_state
    nReason,        \* history: calls of the reasoning collaborator
    nRequested,     \* history: tool invocation requests received so far
    returned,       \* what run_agent returned to its caller ("pending" before)
    running,        \* processes started by host_run_command that still run
    text,           \* the argument of escape_text_for_adb, as characters
    escaped         \* what escape_text_for_adb returned for text

vars == << max_iterations, iteration, pc, state, messages, tool_calls, idx,
           localDump, captured, invoked, outcomes, nPerceive, nReason,
           nRequested, returned, running, text, escaped >>

SystemTurn == [role |-> "system", content |-> "system prompt"]
GoalTurn == [role |-> "user", content |-> "GOAL: goal"]
ScreenTurn(ctx) == [role |-> "user", content |-> "Current screen state:\n" \o ctx]
AssistantTurn(tcs) == [role |-> "assistant", tool_calls |-> tcs]

InitWith(budgets) ==
    /\ max_iterations \in budgets
    /\ iteration = 0
    /\ pc = "for"
    /\ state = "RUNNING"
    /\ messages = << SystemTurn, GoalTurn >>
    /\ tool_calls = << >>
    /\ idx = 0
    /\ localDump \in {"absent", "screen0"}
    /\ captured = "none"
    /\ invoked = << >>
    /\ outcomes = << >>
    /\ nPerceive = 0
    /\ nReason = 0
    /\ nRequested = 0
    /\ returned = "pending"
    /\ running = {}
    /\ text = << >>
    /\ escaped = << >>

Init == InitWith(0..MaxIterations)

\* an exception propagates out of run_agent
Propagate ==
    /\ state' = "RAISED"
    /\ pc' = "end"
    /\ returned' = returned

\* a range that includes its upper end
InRange_Inclusive(it, budget) == it <= budget

\* `iteration in range(max_iterations)`
InRange(it, budget) == it < budget

\* The value run_agent hands to its caller when it ends in st: the bare
\* `return` of line 371 (DONE) and the end of the function body after line
\* 385 (EXHAUSTED) both give None.
ReturnValue(st) ==
    CASE st = "DONE" -> "None"
      [] OTHER -> "None"

\* `for iteration in range(max_iterations)`: next value or the end of the loop
LoopHead ==
    /\ pc = "for"
    /\ IF InRange(iteration, max_iterations)
       THEN /\ pc' = "perceive"
            /\ state' = state
            /\ returned' = returned
       ELSE /\ pc' = "end"
            /\ state' = "EXHAUSTED"
            /\ returned' = ReturnValue("EXHAUSTED")
    /\ UNCHANGED << max_iterations, iteration, messages, tool_calls, idx,
                    localDump, captured, invoked, outcomes, nPerceive, nReason,
                    nRequested, running, text, escaped >>

\* screen_context = get_screen_state(); messages.append(...)
Perceive ==
    /\ pc = "perceive"
    /\ \E cap \in CaptureOutcomes :
         LET fresh == "screen" \o Str(iteration + 1)
             r == get_screen_state(cap, localDump, fresh)
         IN  /\ localDump' = PulledFile(cap, localDump, fresh)
             /\ captured' = cap
             /\ IF r.raised
                THEN /\ Propagate
                     /\ messages' = messages
                ELSE /\ messages' = Append(messages, ScreenTurn(r.value))
                     /\ pc' = "reason"
                     /\ state' = state
                     /\ returned' = returned
    /\ nPerceive' = nPerceive + 1
    /\ UNCHANGED << max_iterations, iteration, tool_calls, idx, invoked,
                    outcomes, nReason, nRequested, running, text, escaped >>

\* a `return` where the code has `continue`
AfterRemark_Return == "end"

\* where `continue` (line 353) takes run_agent after a reply without tool
\* calls: back to the head of the for loop
AfterRemark == "for"

\* client.chat.completions.create(...); messages.append(message); the
\* `if not message.tool_calls: continue` branch. requests is what the
\* collaborator may ask for, most is the longest reply it may still give.
Reason(requests, most) ==
    /\ pc = "reason"
    /\ nReason' = nReason + 1
    /\ \/ /\ Propagate      \* the API call raises (network, authentication)
          /\ UNCHANGED << messages, tool_calls, idx, iteration, nRequested >>
       \/ \E rs \in SeqsUpTo(requests, most) :
            LET tcs == ToolCalls(rs, iteration + 1)
            IN  /\ messages' = Append(messages, AssistantTurn(tcs))
                /\ tool_calls' = tcs
                /\ nRequested' = nRequested + Len(tcs)
                /\ state' = state
                /\ returned' = returned
                /\ IF tcs = << >>
                   THEN /\ pc' = AfterRemark
                        /\ iteration' = iteration + 1
                        /\ idx' = idx
                   ELSE /\ pc' = "dispatch"
                        /\ iteration' = iteration
                        /\ idx' = 1
    /\ UNCHANGED << max_iterations, localDump, captured, invoked, outcomes,
                    nPerceive, running, text, escaped >>


\* ------------------------------------------------------------- dispatcher
\* Lines 356-367 for one tool call: parse the arguments, look the name up,
\* call the action. raised: an exception left the block; ran: the action
\* body was entered; value: `result`, or str(e) of the escaping exception.
DispatchResult(tc, env) ==
    LET parsed == json_loads(tc.arguments)
        called == CallAction(tc.name, tc.arguments.value, env)
    IN  IF parsed.raised
        THEN [raised |-> TRUE, ran |-> FALSE, value |-> parsed.value]
        ELSE IF tc.name \notin FUNCTION_MAP
        THEN [raised |-> FALSE, ran |-> FALSE,
              value |-> "Error: Unknown function " \o tc.name]
        ELSE IF called.raised
        THEN [raised |-> FALSE, ran |-> Binds(tc.name, tc.arguments.value),
              value |-> "Error: " \o called.value]
        ELSE [raised |-> FALSE, ran |-> TRUE, value |-> called.value]

\* a comparison with a misspelt marker
SignalsCompletion_Misspelt(result) == result = "TASK_COMPLETED"

\* `if result == "TASK_COMPLETE"`
SignalsCompletion(result) == result = COMPLETION_MARKER

\* the tool-result turn appended before the completion check
AppendResult_BeforeCheck(msgs, id, result) ==
    Append(msgs, [role |-> "tool", tool_call_id |-> id, content |-> result])

\* the tool-result turn with identifier and content exchanged
AppendResult_Swapped(msgs, id, result) ==
    IF SignalsCompletion(result)
    THEN msgs
    ELSE Append(msgs, [role |-> "tool", tool_call_id |-> result, content |-> id])

\* the tool-result turn written over the last turn instead of appended
AppendResult_Overwrite(msgs, id, result) ==
    IF SignalsCompletion(result)
    THEN msgs
    ELSE [msgs EXCEPT ![Len(msgs)] =
            [role |-> "tool", tool_call_id |-> id, content |-> result]]

\* messages after lines 369-379: on completion `return` leaves it as it is,
\* otherwise the tool-result turn of the request is appended
AppendResult(msgs, id, result) ==
    IF SignalsCompletion(result)
    THEN msgs
    ELSE Append(msgs, [role |-> "tool", tool_call_id |-> id, content |-> result])

\* One pass of `for tool_call in message.tool_calls` (lines 355-381), and
\* after the last pass time.sleep(1) and the next iteration. drawn is the set
\* of collaborator outcomes the run may meet.
Dispatch(drawn) ==
    /\ pc = "dispatch"
    /\ LET tc == tool_calls[idx]
       IN  \E env \in EnvOutcomes(tc.name) \cap drawn :
             LET d == DispatchResult(tc, env)
             IN  /\ invoked' = IF d.ran THEN Append(invoked, tc.id) ELSE invoked
                 /\ running' = IF d.ran THEN running \cup LeftRunning(tc.name, env)
                                ELSE running
                 /\ outcomes' =
                      IF d.ran
                      THEN Append(outcomes,
                             [id |-> tc.id, name |-> tc.name, env |-> env,
                              raised |-> CallAction(tc.name, tc.arguments.value, env).raised,
                              value |-> CallAction(tc.name, tc.arguments.value, env).value])
                      ELSE outcomes
                 /\ IF d.raised
                    THEN /\ Propagate
                         /\ UNCHANGED << messages, idx, iteration >>
                    ELSE IF SignalsCompletion(d.value)
                    THEN /\ state' = "DONE"
                         /\ pc' = "end"
                         /\ returned' = ReturnValue("DONE")
                         /\ messages' = AppendResult(messages, tc.id, d.value)
                         /\ UNCHANGED << idx, iteration >>
                    ELSE /\ messages' = AppendResult(messages, tc.id, d.value)
                         /\ state' = state
                         /\ returned' = returned
                         /\ IF idx < Len(tool_calls)
                            THEN /\ idx' = idx + 1
                                 /\ pc' = "dispatch"
                                 /\ iteration' = iteration
                            ELSE /\ idx' = idx
                                 /\ pc' = "for"
                                 /\ iteration' = iteration + 1
    /\ UNCHANGED << max_iterations, tool_calls, localDump, captured,
                    nPerceive, nReason, nRequested, text, escaped >>

\* ---------------------------------------------------------- specifications
\* Runs of up to MaxIterations iterations in which the collaborator emits up
\* to MaxRequests of LoopRequests, spread over its replies as it likes.
ReasonLoop == Reason(LoopRequests, MaxRequests - nRequested)

DispatchLoop == Dispatch(LoopOutcomes)

Next == LoopHead \/ Perceive \/ ReasonLoop \/ DispatchLoop

Spec == Init /\ [][Next]_vars

\* Runs of one iteration whose reply carries at most one request, drawn from
\* the whole request surface.
InitCatalog == InitWith({1})

ReasonCatalog == Reason(CatalogRequests, IF nRequested = 0 THEN 1 ELSE 0)

DispatchCatalog == Dispatch(AllOutcomes)

NextCatalog == LoopHead \/ Perceive \/ ReasonCatalog \/ DispatchCatalog

SpecCatalog == InitCatalog /\ [][NextCatalog]_vars


\* Calls of escape_text_for_adb, as android_type makes them (line 72), on
\* every text of Texts.
InitEscape ==
    /\ max_iterations = 0
    /\ iteration = 0
    /\ pc = "escape"
    /\ state = "RUNNING"
    /\ messages = << SystemTurn, GoalTurn >>
    /\ tool_calls = << >>
    /\ idx = 0
    /\ localDump = "absent"
    /\ captured = "none"
    /\ invoked = << >>
    /\ outcomes = << >>
    /\ nPerceive = 0
    /\ nReason = 0
    /\ nRequested = 0
    /\ returned = "pending"
    /\ running = {}
    /\ text \in Texts
    /\ escaped = << >>

\* escaped_text = escape_text_for_adb(text)
EscapeText ==
    /\ pc = "escape"
    /\ escaped' = escape_text_for_adb(text)
    /\ pc' = "escaped"
    /\ UNCHANGED << max_iterations, iteration, state, messages, tool_calls, idx,
                    localDump, captured, invoked, outcomes, nPerceive, nReason,
                    nRequested, returned, running, text >>

NextEscape == EscapeText

SpecEscape == InitEscape /\ [][NextEscape]_vars

\* ------------------------------------------------- vocabulary of the claims
Range(f) == {f[i] : i \in DOMAIN f}

AssistantIdx == {i \in DOMAIN messages : messages[i].role = "assistant"}
ToolIdx == {i \in DOMAIN messages : messages[i].role = "tool"}

\* every tool invocation request received so far in the run
RequestsSeen ==
    UNION { Range(messages[i].tool_calls) : i \in AssistantIdx }

\* the tool-call loop is through with request j of the current reply
Processed(j) ==
    /\ j \in DOMAIN tool_calls
    /\ \/ j < idx
       \/ j = idx /\ pc # "dispatch"

HasToolTurn(id, content) ==
    \E i \in ToolIdx : /\ messages[i].tool_call_id = id
                       /\ messages[i].content = content

HasToolTurnFor(id) == \E i \in ToolIdx : messages[i].tool_call_id = id

UnknownFunctionError(name) == "Error: Unknown function " \o name

\* a well-formed task_complete(summary) request
IsTaskComplete(tc) ==
    /\ tc.name = "task_complete"
    /\ tc.arguments.wellformed
    /\ Keys(tc.arguments.value) = {"summary"}

\* ---------------------------------------------------------------------- C1
\* C1: when the only tool invocation of a reply is task_complete(summary), the
\* dispatch of it ends the run in DONE in that same iteration (also in the last
\* allowed one), without another turn, perception or reasoning call, and
\* nothing happens after DONE.
C1_DoneSameIteration ==
    [][ /\ ( /\ pc = "dispatch"
             /\ Len(tool_calls) = 1
             /\ IsTaskComplete(tool_calls[1]) )
           => /\ state' = "DONE"
              /\ pc' = "end"
              /\ iteration' = iteration
              /\ messages' = messages
              /\ nPerceive' = nPerceive
              /\ nReason' = nReason
        /\ state = "DONE" => FALSE ]_vars

\* a run that ended DONE on a sole task_complete in its last allowed iteration,
\* which was not its first
C1_Witness ==
    /\ state = "DONE"
    /\ Len(tool_calls) = 1
    /\ IsTaskComplete(tool_calls[1])
    /\ iteration = max_iterations - 1
    /\ iteration >= 1

\* ---------------------------------------------------------------------- C2
\* C2 (as claimed): a run in which task_complete is never requested and no
\* action returns the completion marker ends EXHAUSTED after exactly
\* max_iterations perception calls and max_iterations reasoning calls, and a
\* reply without requests dispatches nothing.
C2_ExhaustedAfterBudget ==
    ( /\ pc = "end"
      /\ \A tc \in RequestsSeen : tc.name # "task_complete"
      /\ \A i \in DOMAIN outcomes : outcomes[i].value # COMPLETION_MARKER )
    => /\ state = "EXHAUSTED"
       /\ nPerceive = max_iterations
       /\ nReason = max_iterations
       /\ Range(invoked) \subseteq {tc.id : tc \in RequestsSeen}

\* ---------------------------------------------------------------------- C3
\* C3 (as claimed): a run that has ended has ended in DONE or in EXHAUSTED; no
\* exception leaves run_agent.
C3_NoErrorEndsRun ==
    pc = "end" => state \in {"DONE", "EXHAUSTED"}

\* ---------------------------------------------------------------------- C4
\* C4 (as claimed): once the tool-call loop is through with a request whose
\* name is not in FUNCTION_MAP, whatever its arguments payload, the transcript
\* holds the tool-result turn "Error: Unknown function <name>" for it (so the
\* loop went on past it) and no action ran for it.
C4_UnknownFunctionResult ==
    \A j \in DOMAIN tool_calls :
        (Processed(j) /\ tool_calls[j].name \notin FUNCTION_MAP)
        => /\ HasToolTurn(tool_calls[j].id, UnknownFunctionError(tool_calls[j].name))
           /\ tool_calls[j].id \notin Range(invoked)

\* ---------------------------------------------------------------------- C5
\* C5 (as claimed): once the tool-call loop is through with a request for a
\* registered tool whose invocation failed (arguments that are not JSON,
\* arguments that do not match the signature, an exception in the action), the
\* transcript holds an "Error: <message>" tool-result turn with that request's
\* identifier (so the failure did not leave the tool-call loop).
DispatcherErrors ==
    { "Error: " \o CallAction(tc.name, tc.arguments.value, env).value :
        tc \in { t \in RequestsSeen : t.name \in FUNCTION_MAP },
        env \in AllOutcomes }
    \cup { "Error: " \o json_loads(MalformedJson).value }

InvocationFailed(tc) ==
    \/ ~tc.arguments.wellformed
    \/ ~Binds(tc.name, tc.arguments.value)
    \/ \E i \in DOMAIN outcomes : outcomes[i].id = tc.id /\ outcomes[i].raised

C5_InvocationFailureContained ==
    \A j \in DOMAIN tool_calls :
        ( /\ Processed(j)
          /\ tool_calls[j].name \in FUNCTION_MAP
          /\ InvocationFailed(tool_calls[j]) )
        => \E i \in ToolIdx :
              /\ messages[i].tool_call_id = tool_calls[j].id
              /\ messages[i].content \in DispatcherErrors

\* ---------------------------------------------------------------------- C6
\* C6 (as claimed): every action of the catalog that was called with arguments
\* of its declared types returned a string; none raised.
C6_ActionsNeverRaise ==
    \A i \in DOMAIN outcomes : ~outcomes[i].raised

\* ---------------------------------------------------------------------- C7
\* C7 (as claimed): a run is DONE only if task_complete was invoked in it.
C7_DoneOnlyByTaskComplete ==
    state = "DONE" => \E i \in DOMAIN outcomes : outcomes[i].name = "task_complete"


\* ---------------------------------------------------------------------- C8
TenTools ==
    { "android_tap", "android_type", "android_home", "android_back",
      "android_wait", "host_read_file", "host_write_file",
      "host_run_command", "host_list_directory", "task_complete" }

ElevenTools == TenTools \cup {"android_swipe"}

Advertised == Range(FUNCTIONS)

PositionIn(seq, x) == CHOOSE i \in DOMAIN seq : seq[i] = x

C9_CompletionStopsReply ==
    state = "DONE" =>
      LET j == idx
          k == Len(tool_calls)
          n == Len(messages)
          ids == [i \in 1..k |-> tool_calls[i].id]
      IN  /\ j \in 1..k
          /\ n - (j - 1) \in DOMAIN messages
          /\ messages[n - (j - 1)].role = "assistant"
          /\ messages[n - (j - 1)].tool_calls = tool_calls
          /\ \A i \in 1..(j - 1) :
               /\ messages[n - (j - 1) + i].role = "tool"
               /\ messages[n - (j - 1) + i].tool_call_id = ids[i]
          /\ \A i \in j..k : ~HasToolTurnFor(ids[i])
          /\ \A i \in (j + 1)..k : ids[i] \notin Range(invoked)
          /\ ids[j] \in Range(invoked)
          /\ \A a, b \in DOMAIN invoked :
               (a < b /\ invoked[a] \in Range(ids) /\ invoked[b] \in Range(ids))
               => PositionIn(ids, invoked[a]) < PositionIn(ids, invoked[b])

\* completion signalled by the second of three requests
C9_Witness ==
    /\ state = "DONE"
    /\ idx = 2
    /\ Len(tool_calls) = 3
    /\ tool_calls[1].id \in Range(invoked)

\* --------------------------------------------------------------------- C10
IsScreenError(turn) == turn = ScreenTurn(CAPTURE_ERROR)

\* C10 (as claimed): when the capture of the current iteration failed, the
\* perception step still reached the reasoning step, and the observation it
\* appended is the textual error, not a screen snapshot.
C10_CaptureFailureIsError ==
    (captured # "none" /\ captured # "ok" /\ pc # "perceive")
    => /\ ~(state = "RAISED" /\ nReason < nPerceive)
       /\ (pc = "reason" => IsScreenError(messages[Len(messages)]))


\* --------------------------------------------------------------------- C11
\* C11: a reply without tool invocation requests does not end the run: the
\* step that appends it leaves the state RUNNING, dispatches nothing, appends
\* no tool-result turn and goes to the head of the loop with the next
\* iteration; from the head of the loop, while iterations remain, the run goes
\* to the perception step, which calls get_screen_state anew.
C11_RemarkNotTerminal ==
    [][ /\ ( /\ pc = "reason"
             /\ Len(messages') = Len(messages) + 1
             /\ messages'[Len(messages')].tool_calls = << >> )
           => /\ state' = "RUNNING"
              /\ pc' = "for"
              /\ iteration' = iteration + 1
              /\ invoked' = invoked
              /\ outcomes' = outcomes
              /\ messages' = Append(messages, AssistantTurn(<< >>))
        /\ (pc = "for" /\ iteration < max_iterations)
           => /\ pc' = "perceive"
              /\ state' = "RUNNING"
              /\ messages' = messages
        /\ pc = "perceive" => nPerceive' = nPerceive + 1 ]_vars

\* a run that reached DONE after an earlier reply without requests
C11_Witness ==
    /\ state = "DONE"
    /\ \E i \in AssistantIdx : messages[i].tool_calls = << >>

\* --------------------------------------------------------------------- C12
\* C12 (as claimed): the value run_agent returns when it ends DONE differs
\* from the value it returns when it ends EXHAUSTED.
C12_StatusDistinguishes ==
    /\ (pc = "end" /\ state = "DONE") => returned # ReturnValue("EXHAUSTED")
    /\ (pc = "end" /\ state = "EXHAUSTED") => returned # ReturnValue("DONE")

\* --------------------------------------------------------------------- C13
TIMEOUT_MESSAGE == "Error: Command timed out after 30 seconds"

\* C13 (as claimed): when host_run_command has returned for a command that ran
\* past the timeout, it returned the timeout message and none of the
\* command's processes (the shell, the processes the shell started) runs.
C13_TimeoutLeavesNothing ==
    \A i \in DOMAIN outcomes :
        (outcomes[i].name = "host_run_command" /\ TimedOut(outcomes[i].env))
        => /\ outcomes[i].value = TIMEOUT_MESSAGE
           /\ running = {}


\* --------------------------------------------------------------------- C14
\* the backslashes that stand directly before position i of out
RECURSIVE BackslashesBefore(_, _)
BackslashesBefore(out, i) ==
    IF i > 1 /\ out[i - 1] = BACKSLASH
    THEN 1 + BackslashesBefore(out, i - 1)
    ELSE 0

\* the character at position i is escaped: the backslash before it is not
\* itself escaped
IsEscapedAt(out, i) == BackslashesBefore(out, i) % 2 = 1

\* C14 (as claimed): for every input text, the escaped text holds no space and
\* no unescaped metacharacter.
C14_NoUnescapedMetacharacter ==
    pc = "escaped" =>
      \A i \in DOMAIN escaped :
          /\ escaped[i] # " "
          /\ escaped[i] \in Metacharacters => IsEscapedAt(escaped, i)

\* --------------------------------------------------------------------- C15
\* every text of Texts with its escaped form
EscapeTable == { << t, escape_text_for_adb(t) >> : t \in Texts }

\* "%" directly followed by "s"
HasPercentS(t) == \E i \in 1..(Len(t) - 1) : t[i] = "%" /\ t[i + 1] = "s"

\* reading an escaped text back: "%s" is a space, a backslash before a
\* metacharacter is dropped, every other character stands for itself
RECURSIVE Unescape(_)
Unescape(out) ==
    IF out = << >> THEN << >>
    ELSE IF Len(out) >= 2 /\ out[1] = "%" /\ out[2] = "s"
         THEN << " " >> \o Unescape(SubSeq(out, 3, Len(out)))
    ELSE IF Len(out) >= 2 /\ out[1] = BACKSLASH /\ out[2] \in Metacharacters
         THEN << out[2] >> \o Unescape(SubSeq(out, 3, Len(out)))
    ELSE << out[1] >> \o Unescape(Tail(out))

\* C15 (as claimed): no other text of spaces, metacharacters and ordinary
\* characters escapes to the same output as the text that was escaped.
C15_LosslessForAllTexts ==
    pc = "escaped" =>
      \A p \in EscapeTable : p[2] = escaped => p[1] = text

\* C15 (amended): among the texts in which "%" is nowhere directly followed
\* by "s", no other text escapes to the same output as the text that was
\* escaped, and reading the output back gives the text.
C15_LosslessWithoutPercentS ==
    (pc = "escaped" /\ ~HasPercentS(text)) =>
      /\ \A p \in EscapeTable : (p[2] = escaped /\ ~HasPercentS(p[1])) => p[1] = text
      /\ Unescape(escaped) = text

\* the text of a space and an ampersand was escaped
C15_Witness ==
    /\ pc = "escaped"
    /\ text = << " ", "&" >>
    /\ escaped = << "%", "s", BACKSLASH, "&" >>


\* ------------------------------------------- the transcript, for C16 to C19
RECURSIVE RequestIdsUpTo(_)
\* the identifiers of the requests of the first n turns, in transcript order
RequestIdsUpTo(n) ==
    IF n = 0 THEN << >>
    ELSE IF messages[n].role = "assistant"
         THEN RequestIdsUpTo(n - 1)
              \o [j \in DOMAIN messages[n].tool_calls |-> messages[n].tool_calls[j].id]
         ELSE RequestIdsUpTo(n - 1)

RequestIds == RequestIdsUpTo(Len(messages))

RECURSIVE ToolTurnIdsUpTo(_)
\* the identifiers of the tool-result turns among the first n turns, in order
ToolTurnIdsUpTo(n) ==
    IF n = 0 THEN << >>
    ELSE IF messages[n].role = "tool"
         THEN Append(ToolTurnIdsUpTo(n - 1), messages[n].tool_call_id)
         ELSE ToolTurnIdsUpTo(n - 1)

ToolTurnIds == ToolTurnIdsUpTo(Len(messages))

\* the elements of a are elements of b, each at most once, in the order of b
InOrderOf(a, b) ==
    /\ Range(a) \subseteq Range(b)
    /\ \A i, j \in DOMAIN a :
         i < j => PositionIn(b, a[i]) < PositionIn(b, a[j])

ScreenIdx == {i \in DOMAIN messages : i > 2 /\ messages[i].role = "user"}

\* --------------------------------------------------------------------- C16
\* C16: the actions that ran, ran in the order of the requests, each request
\* at most once; the tool-result turns stand in the order of the requests,
\* each with the identifier of its request and the result of that request's
\* action; and when the perception or the reasoning of an iteration starts,
\* every request received before has its tool-result turn.
C16_SequentialInOrder ==
    /\ InOrderOf(invoked, RequestIds)
    /\ InOrderOf(ToolTurnIds, RequestIds)
    /\ Len(outcomes) = Len(invoked)
    /\ \A i \in DOMAIN outcomes :
         /\ outcomes[i].id = invoked[i]
         /\ (outcomes[i].id \in Range(ToolTurnIds))
            => HasToolTurn(outcomes[i].id,
                 IF outcomes[i].raised THEN "Error: " \o outcomes[i].value
                 ELSE outcomes[i].value)
    /\ pc \in {"for", "perceive", "reason"} => ToolTurnIds = RequestIds

\* the perception of the second iteration is about to start after two
\* dispatches of the first, one of which failed
C16_Witness ==
    /\ pc = "perceive"
    /\ iteration = 1
    /\ Len(ToolTurnIds) >= 2
    /\ Len(invoked) >= 2
    /\ \E i \in DOMAIN outcomes : outcomes[i].raised

\* --------------------------------------------------------------------- C17
IsPrefix(a, b) ==
    /\ Len(a) <= Len(b)
    /\ \A i \in DOMAIN a : a[i] = b[i]

\* the assistant turn that opens the block turn i belongs to
BlockStart(i) ==
    CHOOSE a \in AssistantIdx :
        /\ a <= i
        /\ \A b \in AssistantIdx : b <= i => b <= a

\* turn i (beyond the two seed turns) stands where an iteration puts it: a
\* screen observation after the seed or after a complete block, an assistant
\* turn directly after a screen observation, a tool-result turn as the k-th
\* turn after the assistant turn whose k-th request it answers
TurnInPlace(i) ==
    LET m == messages[i]
        prev == messages[i - 1]
    IN  CASE m.role = "user" ->
               \/ i = 3
               \/ /\ i > 3
                  /\ prev.role \in {"assistant", "tool"}
                  /\ (i - 1) - BlockStart(i - 1) = Len(messages[BlockStart(i - 1)].tool_calls)
          [] m.role = "assistant" -> (i - 1) \in ScreenIdx
          [] m.role = "tool" ->
               /\ \E a \in AssistantIdx : a < i
               /\ LET a == BlockStart(i)
                      k == i - a
                  IN  /\ \A j \in (a + 1)..(i - 1) : messages[j].role = "tool"
                      /\ k \in DOMAIN messages[a].tool_calls
                      /\ m.tool_call_id = messages[a].tool_calls[k].id
          [] OTHER -> FALSE

TranscriptWellFormed ==
    /\ Len(messages) >= 2
    /\ messages[1] = SystemTurn
    /\ messages[2] = GoalTurn
    /\ \A i \in 3..Len(messages) : TurnInPlace(i)
    /\ pc = "for" =>
         /\ Cardinality(ScreenIdx) = iteration
         /\ Cardinality(AssistantIdx) = iteration
    /\ (pc = "dispatch" \/ state = "DONE") =>
         /\ Cardinality(ScreenIdx) = iteration + 1
         /\ Cardinality(AssistantIdx) = iteration + 1
    /\ state = "EXHAUSTED" =>
         /\ Cardinality(ScreenIdx) = max_iterations
         /\ Cardinality(AssistantIdx) = max_iterations

ObservationCaptured ==
    IF captured = "ok"
    THEN Elements("screen" \o Str(iteration + 1))
    ELSE CAPTURE_ERROR

\* every request of every assistant turn has exactly one tool-result turn
\* with its identifier, after that assistant turn and before the next screen
\* observation
RequestsAnswered ==
    \A a \in AssistantIdx :
      \A k \in DOMAIN messages[a].tool_calls :
        LET id == messages[a].tool_calls[k].id
            answers == {i \in ToolIdx : messages[i].tool_call_id = id}
        IN  /\ Cardinality(answers) = 1
            /\ \A i \in answers :
                 /\ i > a
                 /\ \A j \in ScreenIdx : j > a => i < j

\* C18 (as claimed): when the reasoning collaborator is called, the last turn
\* of the transcript is the screen observation captured in the current
\* iteration, and every request of every earlier assistant turn has exactly
\* one tool-result turn with its identifier, after that assistant turn and
\* before the next screen observation.
C18_WellFormedAtReasoning ==
    pc = "reason" =>
      /\ messages[Len(messages)] = ScreenTurn(ObservationCaptured)
      /\ Cardinality(ScreenIdx) = iteration + 1
      /\ RequestsAnswered

\* the part of C18 that is about the requests alone
C18_RequestsAnsweredAtReasoning == pc = "reason" => RequestsAnswered

\* --------------------------------------------------------------------- C19
\* C19: there are at most max_iterations perception calls; the reasoning
\* calls are as many as the perception calls or one fewer; and a tool is
\* dispatched only for a request of a reply that the reasoning call of the
\* current iteration has returned.
C19_CallCounts ==
    /\ nPerceive <= max_iterations
    /\ nReason <= nPerceive
    /\ nPerceive <= nReason + 1
    /\ Cardinality(AssistantIdx) <= nReason
    /\ Range(invoked) \subseteq Range(RequestIds)
    /\ pc = "dispatch" =>
         /\ nPerceive = iteration + 1
         /\ nReason = iteration + 1
         /\ messages[BlockStart(Len(messages))].tool_calls = tool_calls

\* the last allowed perception has been made, the reasoning call of that
\* iteration is still to come, and a tool was dispatched before
C19_Witness ==
    /\ max_iterations >= 2
    /\ nPerceive = max_iterations
    /\ nReason = nPerceive - 1
    /\ Len(invoked) >= 1

====
